---- MODULE Spec2Model ----
(***************************************************************************)
(* A model of smart_todo/cli.py: the Task record, the TodoManager store    *)
(* (add_task, mark_completed, update_task_status, load_tasks, save_tasks, *)
(* list_tasks),                                                            *)
(* the urgency scorer (Task.calculate_urgency_score) and the suggestion    *)
(* engine (TodoManager.get_suggested_task).                                *)
(*                                                                         *)
(* Strings are sequences of tokens: a letter, a blank, or one of the two   *)
(* markers "TASK:" and "REASON:". A deadline string is a pair              *)
(* <<format, n>>: the lenient date parser reads the formats "ymd" and      *)
(* "dmy" as the instant n (two different strings may name one instant) and *)
(* rejects "junk". Time is counted in steps of HourStep hours.             *)
(* The fields description, mood_required, effort, difficulty and           *)
(* energy_required are written by Task.__init__ only and read only into    *)
(* the prompt; they are left out of the Task record.                       *)
(***************************************************************************)
EXTENDS Integers, Sequences, FiniteSets, TLC

\* ---------------------------------------------------------------- bounds
MaxTasks == 2
MaxSaves == 3
HourStep == 12
MaxSteps == 190
MaxNow == 1

\* ---------------------------------------------------------------- strings
Blank == " "

NL == "\n"

\* str.strip() and friends take blanks and line breaks as whitespace
IsSpace(c) == c \in {Blank, NL}

Lower(c) == IF c = "A" THEN "a" ELSE IF c = "B" THEN "b" ELSE c

\* str.lower()
LowerStr(s) == [i \in 1..Len(s) |-> Lower(s[i])]

\* `needle in hay`
Contains(hay, needle) ==
    \E k \in 0..(Len(hay) - Len(needle)) :
        \A i \in 1..Len(needle) : hay[k + i] = needle[i]

RECURSIVE LStrip(_)
LStrip(s) == IF s # <<>> /\ IsSpace(Head(s)) THEN LStrip(Tail(s)) ELSE s

RECURSIVE RStrip(_)
RStrip(s) ==
    IF s # <<>> /\ IsSpace(s[Len(s)]) THEN RStrip(SubSeq(s, 1, Len(s) - 1)) ELSE s

\* str.strip()
Strip(s) == RStrip(LStrip(s))

\* str.replace(marker, '')
RemoveAll(s, marker) == SelectSeq(s, LAMBDA c : c # marker)

\* str.startswith(marker)
StartsWith(s, marker) == s # <<>> /\ Head(s) = marker

\* str.split('\n'): the lines of a text, at least one
RECURSIVE SplitLines(_, _)
SplitLines(s, cur) ==
    IF s = <<>> THEN <<cur>>
    ELSE IF Head(s) = NL THEN <<cur>> \o SplitLines(Tail(s), <<>>)
    ELSE SplitLines(Tail(s), Append(cur, Head(s)))

\* ---------------------------------------------------------------- deadlines
\* whether dateutil.parser.parse returns (it raises ParserError otherwise)
Parseable(d) == d[1] # "junk"

\* dateutil.parser.parse of a string it accepts, in steps since the model's epoch
Parse(d) == d[2]

\* ---------------------------------------------------------------- Task
STATUS_OPTIONS == {"Not Started", "In Progress", "Completed"}

PRIORITY_LEVELS == 1..4

Titles == { <<>>, <<"a">>, <<"A", "b">> }

\* a deadline the parser rejects
JunkDeadline == <<"junk", 0>>

\* the <<deadline, priority>> the store's tasks are drawn from: an early
\* deadline at Low and at High priority, the same instant written another
\* way at Low priority, and a later deadline at High priority
Schedules ==
    { << <<"ymd", 0>>, 1 >>, << <<"ymd", 0>>, 3 >>,
      << <<"dmy", 0>>, 1 >>, << <<"ymd", 1>>, 3 >> }

\* the <<title, <<deadline, priority>> >> a task is created with: every
\* title with every schedule, and one task whose deadline does not parse
TaskInputs ==
    (Titles \X Schedules) \cup { << <<"a">>, <<JunkDeadline, 1>> >> }

NoReason == <<>>

\* Task.__init__
NewTask(title, deadline, priority) ==
    [ title |-> title, deadline |-> deadline, priority |-> priority,
      completed |-> FALSE, status |-> "Not Started",
      suggestion_reason |-> NoReason ]

\* Task.to_dict
ToDict(t) ==
    [ title |-> t.title, deadline |-> t.deadline, priority |-> t.priority,
      completed |-> t.completed, status |-> t.status ]

\* Task.from_dict
FromDict(d) ==
    [ NewTask(d.title, d.deadline, d.priority)
        EXCEPT !.completed = d.completed, !.status = d.status ]


\* ---------------------------------------------------------------- urgency
Min(a, b) == IF a <= b THEN a ELSE b

Max(a, b) == IF a >= b THEN a ELSE b

\* A score v is held as the integer v * ScoreScale: the decay divides the
\* hours by 24 and the multipliers are tenths.
ScoreScale == 24 * 10

\* hours_until_deadline = (deadline - now).total_seconds() / 3600
HoursUntil(parsed, clock) == HourStep * (parsed - clock)

\* the time bucket, times 24
BaseUrgency(h) ==
    IF h <= 24 THEN 100 * 24
    ELSE IF h <= 48 THEN 80 * 24
    ELSE IF h <= 72 THEN 60 * 24
    ELSE Max(10 * 24, 100 * 24 - h)

\* priority_multiplier.get(self.priority, 1.0), times 10
PriorityMultiplier(p) ==
    CASE p = 1 -> 8 [] p = 2 -> 10 [] p = 3 -> 12 [] OTHER -> 10

\* Task.calculate_urgency_score, times ScoreScale
calculate_urgency_score(deadline, priority, clock) ==
    IF ~Parseable(deadline) THEN 10 * ScoreScale
    ELSE Min(100 * ScoreScale,
             BaseUrgency(HoursUntil(Parse(deadline), clock))
                 * PriorityMultiplier(priority))

\* ---------------------------------------------------------------- state
VARIABLES
    tasks,      \* TodoManager.tasks: the sequence of Task records
    file,       \* the durable record: the sequence of dicts last written
    saves,      \* how many times save_tasks has written the durable record
    op,         \* the last operation and its arguments
    ret,        \* how it ended: what it returned, or that it raised
    reply,      \* what the recommendation collaborator answered in it
    listed,     \* the rows of the table it printed, as positions in tasks
    now,        \* datetime.now(), in steps
    scoreIn,    \* the scorer's inputs: <<deadline1, deadline2, priority>>
    scoreOut    \* their scores, <<>> before they are computed

vars == <<tasks, file, saves, op, ret, reply, listed, now, scoreIn, scoreOut>>

storeVars == <<tasks, file, saves, op, ret, reply, listed>>

scoreVars == <<now, scoreIn, scoreOut>>

NotCalled == <<"NotCalled">>

ServiceError == <<"ServiceError">>

NoTitle == <<>>

NoArg == "-"

\* no table printed
NoRows == <<>>

Op(name, title, arg) == [name |-> name, title |-> title, arg |-> arg]

\* a normal return: value 0 is None, value i > 0 is the Task object tasks[i]
Returned(value, path) == [kind |-> "returned", value |-> value, path |-> path]

\* an exception that leaves the operation
Raised(path) == [kind |-> "raised", value |-> 0, path |-> path]

\* ---------------------------------------------------------------- store
\* TodoManager.save_tasks: the whole collection, suggestion_reason left out
SavedForm(ts) == [i \in 1..Len(ts) |-> ToDict(ts[i])]

\* TodoManager.load_tasks
LoadedForm(f) == [i \in 1..Len(f) |-> FromDict(f[i])]

\* the scan falling through to the last task when no title matches
LastWhenNoTitle(ts, title) ==
    IF \E i \in 1..Len(ts) : ts[i].title = title
    THEN CHOOSE i \in 1..Len(ts) :
            /\ ts[i].title = title
            /\ \A j \in 1..(i - 1) : ts[j].title # title
    ELSE Len(ts)

\* the linear scan `for task in self.tasks: if task.title == title`: the
\* position of the first task with that title, 0 when there is none
FirstWithTitle(ts, title) ==
    IF \E i \in 1..Len(ts) : ts[i].title = title
    THEN CHOOSE i \in 1..Len(ts) :
            /\ ts[i].title = title
            /\ \A j \in 1..(i - 1) : ts[j].title # title
    ELSE 0

\* TodoManager.add_task
AddTask(title, deadline, priority) ==
    /\ Len(tasks) < MaxTasks
    /\ saves < MaxSaves
    /\ tasks' = Append(tasks, NewTask(title, deadline, priority))
    /\ file' = SavedForm(tasks')
    /\ saves' = saves + 1
    /\ op' = Op("add_task", title, NoArg)
    /\ ret' = Returned(0, "done")
    /\ reply' = NotCalled
    /\ listed' = NoRows
    /\ UNCHANGED scoreVars

\* mark_completed setting the status as update_task_status does
MarkedTasksWithStatus(ts, i) ==
    [ts EXCEPT ![i].completed = TRUE, ![i].status = "Completed"]

\* the body of mark_completed's loop on the task it stops at
MarkedTasks(ts, i) == [ts EXCEPT ![i].completed = TRUE]

\* TodoManager.mark_completed
MarkCompleted(title) ==
    /\ saves < MaxSaves
    /\ LET i == FirstWithTitle(tasks, title)
       IN  tasks' = IF i = 0 THEN tasks ELSE MarkedTasks(tasks, i)
    /\ file' = SavedForm(tasks')
    /\ saves' = saves + 1
    /\ op' = Op("mark_completed", title, NoArg)
    /\ ret' = Returned(0, "done")
    /\ reply' = NotCalled
    /\ listed' = NoRows
    /\ UNCHANGED scoreVars

\* update_task_status keeping completed in step with the status
UpdatedTasksInStep(ts, i, new_status) ==
    [ts EXCEPT ![i].completed = (new_status = "Completed"),
               ![i].status = new_status]

\* the body of update_task_status's loop on the task it stops at
UpdatedTasks(ts, i, new_status) ==
    [ts EXCEPT ![i].completed = IF new_status = "Completed" THEN TRUE ELSE @,
               ![i].status = new_status]

\* TodoManager.update_task_status
UpdateTaskStatus(title, new_status) ==
    /\ saves < MaxSaves
    /\ LET i == FirstWithTitle(tasks, title)
       IN  tasks' = IF i = 0 THEN tasks ELSE UpdatedTasks(tasks, i, new_status)
    /\ file' = SavedForm(tasks')
    /\ saves' = saves + 1
    /\ op' = Op("update_task_status", title, new_status)
    /\ ret' = Returned(0, "done")
    /\ reply' = NotCalled
    /\ listed' = NoRows
    /\ UNCHANGED scoreVars

\* the rows list_tasks adds to its table: `for task in self.tasks: if
\* show_completed or not task.completed`, as positions in self.tasks
RECURSIVE ListedFrom(_, _, _)
ListedFrom(ts, i, show_completed) ==
    IF i > Len(ts) THEN <<>>
    ELSE IF show_completed \/ ~ts[i].completed
         THEN <<i>> \o ListedFrom(ts, i + 1, show_completed)
         ELSE ListedFrom(ts, i + 1, show_completed)

\* the list command's flag as the argument of the operation
ListArg(show_completed) == IF show_completed THEN "all" ELSE "default"

\* TodoManager.list_tasks
ListTasks(show_completed) ==
    /\ listed' = ListedFrom(tasks, 1, show_completed)
    /\ op' = Op("list_tasks", NoTitle, ListArg(show_completed))
    /\ ret' = Returned(0, "done")
    /\ reply' = NotCalled
    /\ UNCHANGED <<tasks, file, saves>>
    /\ UNCHANGED scoreVars

\* TodoManager.__init__ of the next process: load_tasks reads the record when
\* it exists
LoadTasks ==
    /\ saves > 0
    /\ tasks' = LoadedForm(file)
    /\ op' = Op("load_tasks", NoTitle, NoArg)
    /\ ret' = Returned(0, "done")
    /\ reply' = NotCalled
    /\ listed' = NoRows
    /\ UNCHANGED <<file, saves>>
    /\ UNCHANGED scoreVars

\* ---------------------------------------------------------------- suggestion
\* the moods the suggest command offers; the mood goes into the prompt only
MOODS == {"energetic", "focused", "creative", "relaxed", "tired"}

\* the mood the runs are made with: the command's default
MoodSamples == {"focused"}

TaskMarker == "TASK:"

ReasonMarker == "REASON:"

\* what the collaborator may answer: the two-line contract, a title that
\* holds another title, a marker after a leading blank, a marker on an
\* indented second line (so no TASK: line at all), two TASK: lines, and
\* nothing
Replies ==
    { <<TaskMarker, Blank, "a", NL, ReasonMarker, Blank, "b">>,
      <<TaskMarker, Blank, "A", "b">>,
      <<Blank, TaskMarker, Blank, "b", NL>>,
      <<"b", NL, Blank, TaskMarker, Blank, "a">>,
      <<TaskMarker, Blank, "b", NL, TaskMarker, "a">>,
      <<>> }

\* available_tasks: the positions in self.tasks of the open tasks, in order
RECURSIVE AvailableFrom(_, _)
AvailableFrom(ts, i) ==
    IF i > Len(ts) THEN <<>>
    ELSE IF ~ts[i].completed /\ ts[i].status # "Completed"
         THEN <<i>> \o AvailableFrom(ts, i + 1)
         ELSE AvailableFrom(ts, i + 1)

AvailableTasks(ts) == AvailableFrom(ts, 1)

\* the loop over response.split('\n'): the last TASK: line and the last
\* REASON: line, each with its marker removed and stripped
RECURSIVE ParseLines(_, _, _)
ParseLines(lines, task_line, reason) ==
    IF lines = <<>> THEN <<task_line, reason>>
    ELSE LET line == Head(lines)
         IN  IF StartsWith(line, TaskMarker)
             THEN ParseLines(Tail(lines), Strip(RemoveAll(line, TaskMarker)), reason)
             ELSE IF StartsWith(line, ReasonMarker)
             THEN ParseLines(Tail(lines), task_line,
                             Strip(RemoveAll(line, ReasonMarker)))
             ELSE ParseLines(Tail(lines), task_line, reason)

\* response = ....text.strip(), then the parse: <<task_line, reason>>
ParseResponse(text) == ParseLines(SplitLines(Strip(text), <<>>), <<>>, <<>>)

\* task.title.lower() in task_line.lower()
TitleMatches(title, task_line) == Contains(LowerStr(task_line), LowerStr(title))

\* `for task in available_tasks: if <match>: return`: the position in
\* self.tasks of the first candidate that matches, 0 when none does
RECURSIVE FirstMatch(_, _, _)
FirstMatch(ts, avail, task_line) ==
    IF avail = <<>> THEN 0
    ELSE IF TitleMatches(ts[Head(avail)].title, task_line) THEN Head(avail)
    ELSE FirstMatch(ts, Tail(avail), task_line)

\* the key with the priority not negated
SortKeyAscendingPriority(t) == <<Parse(t.deadline), t.priority>>

\* the sort key (parser.parse(x.deadline), -x.priority)
SortKey(t) == <<Parse(t.deadline), 0 - t.priority>>

\* tuple comparison, a < b
KeyLess(a, b) == a[1] < b[1] \/ (a[1] = b[1] /\ a[2] < b[2])

\* one element put into a sorted list behind every element not greater than
\* it: list.sort is stable
RECURSIVE InsertSorted(_, _, _)
InsertSorted(ts, sorted, i) ==
    IF sorted = <<>> THEN <<i>>
    ELSE IF KeyLess(SortKey(ts[i]), SortKey(ts[Head(sorted)]))
         THEN <<i>> \o sorted
         ELSE <<Head(sorted)>> \o InsertSorted(ts, Tail(sorted), i)

\* available_tasks.sort(key=...)
RECURSIVE SortedFrom(_, _, _)
SortedFrom(ts, avail, sorted) ==
    IF avail = <<>> THEN sorted
    ELSE SortedFrom(ts, Tail(avail), InsertSorted(ts, sorted, Head(avail)))

FallbackSorted(ts, avail) == SortedFrom(ts, avail, <<>>)

\* the suggestion also starting the task
AttachReasonAndStart(ts, i, reason) ==
    [ts EXCEPT ![i].suggestion_reason = reason, ![i].status = "In Progress"]

\* suggested_task.suggestion_reason = reason
AttachReason(ts, i, reason) == [ts EXCEPT ![i].suggestion_reason = reason]

\* the parse of each reply the collaborator may give
ParsedReplies == [text \in Replies |-> ParseResponse(text)]

\* TodoManager.get_suggested_task. outcome is what the collaborator does
\* when it is called: a reply text, or ServiceError.
GetSuggestedTask(current_mood, outcome) ==
    LET avail == AvailableTasks(tasks)
        parsed == ParsedReplies[outcome]
        match == FirstMatch(tasks, avail, parsed[1])
    IN  /\ current_mood \in MOODS
        /\ op' = Op("get_suggested_task", NoTitle, NoArg)
        /\ listed' = NoRows
        /\ UNCHANGED <<file, saves>>
        /\ UNCHANGED scoreVars
        /\ IF avail = <<>>
           THEN \* return None
                /\ ret' = Returned(0, "empty")
                /\ reply' = NotCalled
                /\ tasks' = tasks
           ELSE IF \E k \in 1..Len(avail) : ~Parseable(tasks[avail[k]].deadline)
           THEN \* parser.parse(task.deadline) raises while tasks_info is built
                /\ ret' = Raised("tasks_info")
                /\ reply' = NotCalled
                /\ tasks' = tasks
           ELSE /\ reply' = outcome
                /\ IF outcome = ServiceError
                   THEN \* except Exception: the fallback sort
                        /\ ret' = Returned(FallbackSorted(tasks, avail)[1], "except")
                        /\ tasks' = tasks
                   ELSE IF match # 0
                   THEN /\ ret' = Returned(match, "match")
                        /\ tasks' = AttachReason(tasks, match, parsed[2])
                   ELSE /\ ret' = Returned(FallbackSorted(tasks, avail)[1], "nomatch")
                        /\ tasks' = tasks

\* ---------------------------------------------------------------- scorer run
ScoreDeadlines ==
    { <<"ymd", n>> : n \in (0 - 2)..MaxSteps } \cup { <<"junk", 0>> }

\* both deadlines of scoreIn are scored at the same clock reading
ScoreTasks ==
    /\ scoreOut = <<>>
    /\ scoreOut' = << calculate_urgency_score(scoreIn[1], scoreIn[3], now),
                      calculate_urgency_score(scoreIn[2], scoreIn[3], now) >>
    /\ UNCHANGED <<now, scoreIn>>
    /\ UNCHANGED storeVars

\* ---------------------------------------------------------------- specifications
StoreInit ==
    /\ tasks = <<>>
    /\ file = <<>>
    /\ saves = 0
    /\ op = Op("init", NoTitle, NoArg)
    /\ ret = Returned(0, "done")
    /\ reply = NotCalled
    /\ listed = NoRows

Init ==
    /\ StoreInit
    /\ now = 0
    /\ scoreIn = << <<"ymd", 0>>, <<"ymd", 0>>, 1 >>
    /\ scoreOut = <<>>

Next ==
    \/ \E input \in TaskInputs : AddTask(input[1], input[2][1], input[2][2])
    \/ \E title \in Titles : MarkCompleted(title)
    \/ \E title \in Titles, new_status \in STATUS_OPTIONS :
            UpdateTaskStatus(title, new_status)
    \/ LoadTasks
    \/ \E show_completed \in BOOLEAN : ListTasks(show_completed)
    \/ \E current_mood \in MoodSamples, outcome \in Replies \cup {ServiceError} :
            GetSuggestedTask(current_mood, outcome)

Spec == Init /\ [][Next]_vars

ScoreInit ==
    /\ StoreInit
    /\ now \in 0..MaxNow
    /\ scoreIn \in ScoreDeadlines \X ScoreDeadlines \X PRIORITY_LEVELS
    /\ scoreOut = <<>>

ScoreNext == ScoreTasks

SpecScore == ScoreInit /\ [][ScoreNext]_vars

\* ---------------------------------------------------------------- claims
IsSuggest == op.name = "get_suggested_task"

IsOpen(t) == ~t.completed /\ t.status # "Completed"

OpenSet(ts) == { i \in 1..Len(ts) : IsOpen(ts[i]) }

\* i comes before j in the order (parsed deadline ascending, priority
\* descending, insertion order)
Precedes(ts, i, j) ==
    \/ Parse(ts[i].deadline) < Parse(ts[j].deadline)
    \/ /\ Parse(ts[i].deadline) = Parse(ts[j].deadline)
       /\ ts[i].priority > ts[j].priority
    \/ /\ Parse(ts[i].deadline) = Parse(ts[j].deadline)
       /\ ts[i].priority = ts[j].priority
       /\ i < j

\* i is the first of the open tasks in that order
IsFallbackFirst(ts, i) ==
    /\ i \in OpenSet(ts)
    /\ \A j \in OpenSet(ts) \ {i} : Precedes(ts, i, j)

\* C1: get_suggested_task never ends in an error propagated to the caller:
\* whatever the store holds and whatever the collaborator does, it returns a
\* task or nothing.
C1_SuggestNeverFails == IsSuggest => ret.kind = "returned"

\* C2: when the collaborator fails, get_suggested_task returns the first of
\* the open tasks in the order (parsed deadline ascending, priority
\* descending), ties going to the task inserted first.
C2_FallbackOnFailure ==
    (IsSuggest /\ reply = ServiceError) =>
        /\ ret.kind = "returned"
        /\ IsFallbackFirst(tasks, ret.value)

\* C2's case: the collaborator failed and two open tasks tie on deadline
\* instant and priority, the instant written in two different ways; the
\* earlier inserted one is returned.
C2_Witness ==
    /\ IsSuggest /\ reply = ServiceError
    /\ Len(tasks) = 2 /\ ret.value = 1
    /\ OpenSet(tasks) = {1, 2}
    /\ tasks[1].deadline # tasks[2].deadline
    /\ Parse(tasks[1].deadline) = Parse(tasks[2].deadline)
    /\ tasks[1].priority = tasks[2].priority

\* C3: in every state reached by add, updateStatus and markCompleted, every
\* task has completed = true exactly when its status is "Completed".
C3_CompletedIffStatus ==
    \A i \in 1..Len(tasks) :
        tasks[i].completed <=> (tasks[i].status = "Completed")

\* a step of a mutating operation: each one writes the record once
IsWriteOf(name) == op'.name = name /\ saves' = saves + 1

\* i is the first task of ts with that title
IsFirstTitled(ts, i, title) ==
    /\ i \in 1..Len(ts)
    /\ ts[i].title = title
    /\ \A j \in 1..(i - 1) : ts[j].title # title

\* C4: markCompleted on an existing title sets completed on the first task
\* with that title and changes nothing else, its status included;
\* updateStatus(title, "Completed") sets both status and completed on it.
C4_MarkVsUpdate ==
    [][ \A i \in 1..Len(tasks) :
          /\ (IsWriteOf("mark_completed") /\ IsFirstTitled(tasks, i, op'.title))
                => tasks' = [tasks EXCEPT ![i].completed = TRUE]
          /\ (IsWriteOf("update_task_status") /\ op'.arg = "Completed"
                /\ IsFirstTitled(tasks, i, op'.title))
                => tasks' = [tasks EXCEPT ![i].completed = TRUE,
                                          ![i].status = "Completed"]
      ]_vars

\* C4's case: markCompleted has just acted on a task that was in progress:
\* the first task with the title is completed, its status still
\* "In Progress".
C4_Witness ==
    /\ op.name = "mark_completed"
    /\ \E i \in 1..Len(tasks) :
          /\ IsFirstTitled(tasks, i, op.title)
          /\ tasks[i].completed
          /\ tasks[i].status = "In Progress"

\* C5: the urgency score is within [10, 100] for every priority in 1..4 and
\* every deadline, unparseable ones included.
C5_ScoreInRange ==
    scoreOut # <<>> =>
        /\ 10 * ScoreScale <= scoreOut[1]
        /\ scoreOut[1] <= 100 * ScoreScale

\* C6: for deadlines h1 <= h2 hours away, both beyond 24 hours, the score of
\* the nearer is at least the score of the farther.
C6_MonotoneBeyond24 ==
    ( /\ scoreOut # <<>>
      /\ Parseable(scoreIn[1]) /\ Parseable(scoreIn[2])
      /\ 24 < HoursUntil(Parse(scoreIn[1]), now)
      /\ HoursUntil(Parse(scoreIn[1]), now) <= HoursUntil(Parse(scoreIn[2]), now) )
    => scoreOut[1] >= scoreOut[2]

\* C7: updateStatus and markCompleted with a title no task has return
\* without an error and leave the task sequence as it was.
C7_MissIsNoOp ==
    [][ ( /\ IsWriteOf("mark_completed") \/ IsWriteOf("update_task_status")
          /\ \A i \in 1..Len(tasks) : tasks[i].title # op'.title )
        => (tasks' = tasks /\ ret'.kind = "returned") ]_vars

\* C7's case: updateStatus has just been called on a store of two tasks with
\* a title none of them has.
C7_Witness ==
    /\ op.name = "update_task_status"
    /\ op.arg = "Completed"
    /\ Len(tasks) = 2
    /\ \A i \in 1..Len(tasks) : tasks[i].title # op.title /\ ~tasks[i].completed

\* C8 as stated: after get_suggested_task returns, on every path, the task
\* sequence has the same order and every task the same field values as
\* before, and the durable record has not been written.
C8_NoSideEffects ==
    [][ (op'.name = "get_suggested_task" /\ ret'.kind = "returned")
        => (tasks' = tasks /\ file' = file /\ saves' = saves) ]_vars

\* C8 as amended: after get_suggested_task returns, the task sequence has the
\* same order and every task the same persisted field values (title,
\* deadline, priority, completed, status) as before, and the durable record
\* has not been written; the one field it writes is suggestion_reason, of
\* the task it returns, on the AI-match path.
C8_NoPersistedEffects ==
    [][ (op'.name = "get_suggested_task" /\ ret'.kind = "returned")
        => /\ Len(tasks') = Len(tasks)
           /\ \A i \in 1..Len(tasks) :
                 /\ ToDict(tasks'[i]) = ToDict(tasks[i])
                 /\ tasks'[i].suggestion_reason # tasks[i].suggestion_reason
                       => (ret'.path = "match" /\ ret'.value = i)
           /\ file' = file
           /\ saves' = saves ]_vars

\* C8's case: get_suggested_task has returned the second of two open tasks
\* on the AI-match path, and the reply's reason is attached to it.
C8_Witness ==
    /\ IsSuggest /\ ret.path = "match" /\ ret.value = 2
    /\ OpenSet(tasks) = {1, 2}
    /\ tasks[2].suggestion_reason = <<"b">>

\* C9: get_suggested_task returns nothing exactly when no task is open, and
\* otherwise returns an open task, for every store state and every
\* collaborator reply.
C9_SelectsOpen ==
    IsSuggest =>
        /\ ret.kind = "returned"
        /\ (ret.value = 0) <=> (OpenSet(tasks) = {})
        /\ ret.value # 0 => ret.value \in OpenSet(tasks)

\* a line of the stripped reply begins with TASK:
HasTaskLine(text) ==
    LET lines == SplitLines(Strip(text), <<>>)
    IN  \E k \in 1..Len(lines) : StartsWith(lines[k], TaskMarker)

\* the open tasks whose lowercased title is in the lowercased text after
\* TASK:, none when the reply has no such line
MatchSet(ts, text) ==
    IF HasTaskLine(text)
    THEN { i \in OpenSet(ts) : TitleMatches(ts[i].title, ParseResponse(text)[1]) }
    ELSE {}

\* C10: when the collaborator replies, get_suggested_task returns the first
\* candidate whose lowercased title is in the lowercased text after TASK:,
\* with the parsed reason attached; when no candidate matches, as with a
\* reply without a TASK: line, it returns the fallback-sort result.
C10_FirstMatchOrFallback ==
    (IsSuggest /\ reply # NotCalled /\ reply # ServiceError) =>
        LET m == MatchSet(tasks, reply)
        IN  /\ ret.kind = "returned"
            /\ m # {} =>
                  /\ ret.value \in m
                  /\ \A j \in m : ret.value <= j
                  /\ tasks[ret.value].suggestion_reason = ParseResponse(reply)[2]
            /\ m = {} => IsFallbackFirst(tasks, ret.value)

\* C11: completion is irreversible. In every step of add_task,
\* update_task_status, mark_completed, get_suggested_task, list_tasks or a
\* reload, a task that has completed = true keeps its place and still has
\* completed = true afterwards, whatever status the step gave it, "In
\* Progress" and "Not Started" included; it is not a suggestion candidate,
\* get_suggested_task does not return it, and the default listing (without
\* --all) does not show it.
C11_CompletionIrreversible ==
    [][ \A i \in 1..Len(tasks) :
          tasks[i].completed =>
            /\ i <= Len(tasks')
            /\ tasks'[i].completed
            /\ i \notin OpenSet(tasks')
            /\ op'.name = "get_suggested_task" => ret'.value # i
            /\ (op'.name = "list_tasks" /\ op'.arg = "default")
                  => \A k \in 1..Len(listed') : listed'[k] # i
      ]_vars

\* C11's case: update_task_status(title, "In Progress") has just acted on a
\* completed task: the first task with the title has the new status, is
\* still completed and is not among the open tasks.
C11_Witness ==
    /\ op.name = "update_task_status"
    /\ op.arg = "In Progress"
    /\ \E i \in 1..Len(tasks) :
          /\ IsFirstTitled(tasks, i, op.title)
          /\ tasks[i].completed
          /\ tasks[i].status = "In Progress"
          /\ i \notin OpenSet(tasks)

====
